---- MODULE Spec2Model ----
(***************************************************************************)
(* Token generation of aws-msk-iam-sasl-signer-go                          *)
(* (signer/msk_auth_token_provider.go) and SignerOptions.Validate.         *)
(*                                                                         *)
(* A Go string is a sequence of symbols.  A symbol is either one reserved  *)
(* character (":", "/", "?", "&", "=", "+", " ", "%"), one percent escape  *)
(* ("%3A", "%2F", ...), the two characters "//", or a chunk of unreserved  *)
(* characters ("kafka-cluster", "us-west-2", "900").  The empty string is  *)
(* <<>>.  Decoded strings never hold escape symbols; escaping and          *)
(* unescaping work symbol by symbol as net/url does byte by byte.          *)
(***************************************************************************)
EXTENDS Integers, Sequences, FiniteSets, TLC

\* ---------------------------------------------------------------- constants
ActionType == <<"Action">>
ActionName == <<"kafka-cluster", ":", "Connect">>
SigningName == <<"kafka-cluster">>
UserAgentKey == <<"User-Agent">>
LibName == <<"aws-msk-iam-sasl-signer-go">>
ExpiresQueryKey == <<"X-Amz-Expires">>
DefaultSessionName == <<"MSKSASLDefaultSession">>
DefaultExpirySeconds == 900

\* version (the library's version string) and runtime.Version()
version == <<"1.0.4">>
RuntimeVersion == <<"go1.20">>

\* fmt.Sprintf(endpointURLTemplate, region)
EndpointURL(region) == <<"kafka.">> \o region \o <<".amazonaws.com">>

\* ---------------------------------------------------------------- helpers
\* F applied to the value of e, which is computed once
Let(e, F(_)) == CHOOSE r \in {F(x) : x \in {e}} : TRUE

\* the n-th smallest member of a set of integers
Nth(S, n) == CHOOSE p \in S : Cardinality({q \in S : q < p}) = n - 1

\* ------------------------------------------------------- strings package
\* strings.Join(parts, sep)
RECURSIVE JoinFrom(_, _, _)
JoinFrom(parts, sep, i) ==
  IF i > Len(parts) THEN <<>>
  ELSE IF i = Len(parts) THEN parts[i]
  ELSE parts[i] \o sep \o JoinFrom(parts, sep, i + 1)

Join(parts, sep) == Let(parts, LAMBDA p : JoinFrom(p, sep, 1))

\* strings.Index for a one-symbol x, counted from 1: 0 when there is none
Index(s, x) ==
  Let(s, LAMBDA v :
    IF \E i \in 1..Len(v) : v[i] = x
    THEN CHOOSE i \in 1..Len(v) : v[i] = x /\ \A j \in 1..(i - 1) : v[j] # x
    ELSE 0)

\* strings.Split(s, sep) for a one-symbol separator
Split(s, sep) ==
  Let(s, LAMBDA v :
    Let({i \in 1..Len(v) : v[i] = sep}, LAMBDA at :
      [j \in 1..(Cardinality(at) + 1) |->
         SubSeq(v,
                IF j = 1 THEN 1 ELSE Nth(at, j - 1) + 1,
                IF j = Cardinality(at) + 1 THEN Len(v) ELSE Nth(at, j) - 1)]))

\* strings.HasPrefix(s, p)
HasPrefix(s, p) == Len(p) <= Len(s) /\ SubSeq(s, 1, Len(p)) = p

\* strings.Replace(s, old, new, -1) for one-symbol old and new
ReplaceAll(s, old, new) ==
  Let(s, LAMBDA v : [i \in 1..Len(v) |-> IF v[i] = old THEN new ELSE v[i]])

\* strconv.FormatInt(n, 10)
FormatInt(n) == <<ToString(n)>>

\* ----------------------------------------------------------- net/url
\* url.QueryEscape, one symbol: every reserved character is percent-escaped,
\* the space becomes "+"
QueryEscapeSym(x) ==
  CASE x = ":" -> "%3A"
    [] x = "/" -> "%2F"
    [] x = "//" -> "%2F%2F"
    [] x = "=" -> "%3D"
    [] x = "&" -> "%26"
    [] x = "+" -> "%2B"
    [] x = "?" -> "%3F"
    [] x = "%" -> "%25"
    [] x = " " -> "+"
    [] OTHER -> x

QueryEscape(s) == Let(s, LAMBDA v : [i \in 1..Len(v) |-> QueryEscapeSym(v[i])])

\* symbols that are a "%" not followed by two hex digits
BadEscapes == {"%", "%zz"}

\* url.QueryUnescape, one symbol
QueryUnescapeSym(x) ==
  CASE x = "%3A" -> ":"
    [] x = "%2F" -> "/"
    [] x = "%2F%2F" -> "//"
    [] x = "%3D" -> "="
    [] x = "%26" -> "&"
    [] x = "%2B" -> "+"
    [] x = "%3F" -> "?"
    [] x = "%25" -> "%"
    [] x = "%20" -> " "
    [] x = "+" -> " "
    [] OTHER -> x

\* url.QueryUnescape: [ok, s]; it fails on a malformed escape
QueryUnescape(s) ==
  Let(s, LAMBDA v :
    IF \E i \in 1..Len(v) : v[i] \in BadEscapes
    THEN [ok |-> FALSE, s |-> <<>>]
    ELSE [ok |-> TRUE, s |-> [i \in 1..Len(v) |-> QueryUnescapeSym(v[i])]])

\* byte order of the symbols that occur in query keys (sort.Strings)
SymOrder ==
  <<"Action", "User-Agent", "X-Amz-Algorithm", "X-Amz-Credential", "X-Amz-Date",
    "X-Amz-Expires", "X-Amz-Security-Token", "X-Amz-Signature",
    "X-Amz-SignedHeaders", "a", "z">>

SymRank(x) == Index(SymOrder, x)

\* a < b, Go's string comparison
RECURSIVE StrLess(_, _)
StrLess(a, b) ==
  IF Len(b) = 0 THEN FALSE
  ELSE IF Len(a) = 0 THEN TRUE
  ELSE IF a[1] = b[1] THEN StrLess(Tail(a), Tail(b))
  ELSE SymRank(a[1]) < SymRank(b[1])

\* the members of a set of keys, sorted
SortedKeys(S) ==
  Let(S, LAMBDA K :
    [i \in 1..Cardinality(K) |->
       CHOOSE k \in K : Cardinality({j \in K : StrLess(j, k)}) = i - 1])

\* url.Values is a function from keys to the sequence of their values.
EmptyValues == [k \in {} |-> <<>>]

\* Values.Set(key, value)
ValuesSet(v, key, value) ==
  Let(<<v, key, value>>, LAMBDA a :
    [k \in DOMAIN a[1] \cup {a[2]} |-> IF k = a[2] THEN <<a[3]>> ELSE a[1][k]])

\* Values.Get(key)
ValuesGet(v, key) ==
  Let(v, LAMBDA w : IF key \in DOMAIN w /\ Len(w[key]) > 0 THEN w[key][1] ELSE <<>>)

\* key=value for every value of one key, "&" between them
EncodeKey(key, vals) ==
  Let(<<QueryEscape(key), vals>>, LAMBDA a :
    Join([i \in 1..Len(a[2]) |-> a[1] \o <<"=">> \o QueryEscape(a[2][i])], <<"&">>))

\* Values.Encode(): "URL encoded" form, sorted by key
ValuesEncode(v) ==
  Let(v, LAMBDA w :
    Let(SortedKeys({k \in DOMAIN w : Len(w[k]) > 0}), LAMBDA keys :
      Join([i \in 1..Len(keys) |-> EncodeKey(keys[i], w[keys[i]])], <<"&">>)))

\* one "&"-separated pair of url.ParseQuery: [ok, key, value]; a pair that is
\* empty or whose key or value does not unescape is dropped
ParsePair(pair) ==
  Let(pair, LAMBDA p :
    Let(Index(p, "="), LAMBDA i :
      Let(<<QueryUnescape(IF i = 0 THEN p ELSE SubSeq(p, 1, i - 1)),
            QueryUnescape(IF i = 0 THEN <<>> ELSE SubSeq(p, i + 1, Len(p)))>>,
          LAMBDA r : [ok |-> Len(p) > 0 /\ r[1].ok /\ r[2].ok,
                      key |-> r[1].s, value |-> r[2].s])))

\* URL.Query(): url.ParseQuery of the raw query, its error discarded
ParseQuery(raw) ==
  Let(Split(raw, "&"), LAMBDA pairs :
    Let([i \in 1..Len(pairs) |-> ParsePair(pairs[i])], LAMBDA kv :
      [k \in {kv[i].key : i \in {j \in 1..Len(kv) : kv[j].ok}} |->
         Let(SelectSeq(kv, LAMBDA p : p.ok /\ p.key = k), LAMBDA sel :
           [i \in 1..Len(sel) |-> sel[i].value])]))

\* symbols that are not letters, digits or one of "+-." runs: they end a scheme
Reserved ==
  {":", "/", "//", "?", "&", "=", "+", " ", "%", "%zz", "%3A", "%2F", "%2F%2F",
   "%3D", "%26", "%2B", "%3F", "%25", "%20"}

\* url.URL
NoURL == [Scheme |-> <<>>, Opaque |-> <<>>, Host |-> <<>>, Path |-> <<>>, RawQuery |-> <<>>]

\* escape(host, encodeHost), one symbol: the sub-delimiters stay, the rest of
\* the reserved characters are percent-escaped
HostEscapeSym(x) ==
  CASE x = "/" -> "%2F"
    [] x = "//" -> "%2F%2F"
    [] x = "?" -> "%3F"
    [] x = " " -> "%20"
    [] x = "%" -> "%25"
    [] OTHER -> x

HostEscape(s) == Let(s, LAMBDA v : [i \in 1..Len(v) |-> HostEscapeSym(v[i])])

\* symbols parseHost rejects: an escape below %80 other than %25 ("invalid URL
\* escape"), a byte that must be escaped in a host ("invalid character in host
\* name"), a colon that no decimal port follows ("invalid port")
HostRejected ==
  {"%", "%zz", "%3A", "%2F", "%2F%2F", "%3D", "%26", "%2B", "%3F", "%20", " ", ":"}

\* unescape(host, encodeHost)
HostUnescape(s) == Let(s, LAMBDA v : [i \in 1..Len(v) |-> IF v[i] = "%25" THEN "%" ELSE v[i]])

\* escape(path, encodePath), one symbol
PathEscapeSym(x) ==
  CASE x = "?" -> "%3F"
    [] x = " " -> "%20"
    [] x = "%" -> "%25"
    [] OTHER -> x

PathEscape(s) == Let(s, LAMBDA v : [i \in 1..Len(v) |-> PathEscapeSym(v[i])])

\* unescape(path, encodePath), one symbol
PathUnescapeSym(x) ==
  CASE x = "%3A" -> ":"
    [] x = "%2F" -> "/"
    [] x = "%3D" -> "="
    [] x = "%26" -> "&"
    [] x = "%2B" -> "+"
    [] x = "%3F" -> "?"
    [] x = "%25" -> "%"
    [] x = "%20" -> " "
    [] OTHER -> x

\* URL.String()
URLString(url) ==
  Let(url, LAMBDA u :
    LET scheme == IF Len(u.Scheme) > 0 THEN u.Scheme \o <<":">> ELSE <<>>
        query == IF Len(u.RawQuery) > 0 THEN <<"?">> \o u.RawQuery ELSE <<>>
        slashes == IF (Len(u.Scheme) > 0 \/ Len(u.Host) > 0)
                      /\ (Len(u.Host) > 0 \/ Len(u.Path) > 0)
                   THEN <<"//">> ELSE <<>>
        lead == IF Len(u.Path) > 0 /\ u.Path[1] # "/" /\ Len(u.Host) > 0
                THEN <<"/">> ELSE <<>>
    IN IF Len(u.Opaque) > 0 THEN scheme \o u.Opaque \o query
       ELSE scheme \o slashes \o HostEscape(u.Host) \o lead \o PathEscape(u.Path) \o query)

\* getScheme: the position of the first symbol that cannot be part of a scheme
FirstReserved(s) ==
  IF \E i \in 1..Len(s) : s[i] \in Reserved
  THEN CHOOSE i \in 1..Len(s) : s[i] \in Reserved /\ \A j \in 1..(i - 1) : s[j] \notin Reserved
  ELSE 0

\* the authority and path of what follows the scheme and precedes the query
ParseRest(scheme, rest, rawQuery) ==
  LET rooted == Len(rest) > 0 /\ rest[1] \in {"/", "//"}
      hasAuthority == Len(rest) > 0 /\ rest[1] = "//"
      afterSlashes == IF hasAuthority THEN Tail(rest) ELSE rest
      firstSegment == LET e == Index(rest, "/")
                      IN IF e = 0 THEN rest ELSE SubSeq(rest, 1, e - 1)
  IN IF ~rooted /\ Len(scheme) > 0
     THEN [ok |-> TRUE, err |-> "",
           url |-> [NoURL EXCEPT !.Scheme = scheme, !.Opaque = rest, !.RawQuery = rawQuery]]
     ELSE IF ~rooted /\ Index(firstSegment, ":") > 0
     THEN [ok |-> FALSE, err |-> "first path segment in URL cannot contain colon",
           url |-> NoURL]
     ELSE Let(Index(afterSlashes, "/"), LAMBDA s :
       Let(<<IF ~hasAuthority THEN <<>>
             ELSE IF s = 0 THEN afterSlashes
             ELSE SubSeq(afterSlashes, 1, s - 1),
             IF ~hasAuthority THEN rest
             ELSE IF s = 0 THEN <<>>
             ELSE SubSeq(afterSlashes, s, Len(afterSlashes))>>,
           LAMBDA ap :
             IF \E i \in 1..Len(ap[1]) : ap[1][i] \in HostRejected
             THEN [ok |-> FALSE, err |-> "invalid host", url |-> NoURL]
             ELSE IF \E i \in 1..Len(ap[2]) : ap[2][i] \in BadEscapes
             THEN [ok |-> FALSE, err |-> "invalid URL escape", url |-> NoURL]
             ELSE [ok |-> TRUE, err |-> "",
                   url |-> [Scheme |-> scheme, Opaque |-> <<>>,
                            Host |-> HostUnescape(ap[1]),
                            Path |-> [i \in 1..Len(ap[2]) |-> PathUnescapeSym(ap[2][i])],
                            RawQuery |-> rawQuery]]))

\* url.Parse(rawURL): [ok, err, url]
Parse(rawURL) ==
  Let(rawURL, LAMBDA raw :
    Let(FirstReserved(raw), LAMBDA c :
      IF c = 1 /\ raw[1] = ":"
      THEN [ok |-> FALSE, err |-> "missing protocol scheme", url |-> NoURL]
      ELSE Let(IF c > 1 /\ raw[c] = ":"
               THEN <<SubSeq(raw, 1, c - 1), SubSeq(raw, c + 1, Len(raw))>>
               ELSE <<<<>>, raw>>,
               LAMBDA sr :
                 Let(Index(sr[2], "?"), LAMBDA q :
                   Let(<<IF q = 0 THEN sr[2] ELSE SubSeq(sr[2], 1, q - 1),
                         IF q = 0 THEN <<>> ELSE SubSeq(sr[2], q + 1, Len(sr[2]))>>,
                       LAMBDA rq : ParseRest(sr[1], rq[1], rq[2]))))))

\* ----------------------------------------------------------- net/http
NoRequest == [Method |-> "", URL |-> NoURL, Host |-> <<>>]

\* http.NewRequest(method, url, nil): [ok, err, req]
NewRequest(method, urlStr) ==
  Let(Parse(urlStr), LAMBDA u :
    IF ~u.ok THEN [ok |-> FALSE, err |-> u.err, req |-> NoRequest]
    ELSE [ok |-> TRUE, err |-> "",
          req |-> [Method |-> method, URL |-> u.url, Host |-> u.url.Host]])

\* ------------------------------------------------------------- errors
\* An error is the chain of its messages, outermost first; nil is <<>>.
NilError == <<>>

ErrorfNoWrap(msg, err) == <<msg>>

\* fmt.Errorf(msg + ": %w", err)
Errorf(msg, err) == <<msg>> \o err

\* ------------------------------------------------------- aws.Credentials
\* the zero value aws.Credentials{}
ZeroCredentials == [AccessKeyID |-> <<>>, SecretAccessKey |-> <<>>, SessionToken |-> <<>>]

\* ------------------------------------------------- SignerOptions.Validate
\* A pointer is <<>> (nil) or <<v>> (a pointer to v).
Nil == <<>>

ValidateWrongCount(so) ==
  IF so = Nil \/ so[1].Region = Nil
  THEN <<"region must be provided">>
  ELSE LET credentialsArgumentsCount ==
             (IF so[1].AwsProfile # Nil THEN 1 ELSE 0)
             + (IF so[1].RoleARN # Nil THEN 1 ELSE 0)
             + (IF so[1].AWSCredentials # Nil THEN 1 ELSE 0)
       IN IF credentialsArgumentsCount > 2
          THEN <<"please provide only one of AWS profile, Role ARN and AWS Credentials">>
          ELSE NilError

\* (so *SignerOptions) Validate() error
Validate(so) ==
  IF so = Nil \/ so[1].Region = Nil
  THEN <<"region must be provided">>
  ELSE LET credentialsArgumentsCount ==
             (IF so[1].AwsProfile # Nil THEN 1 ELSE 0)
             + (IF so[1].RoleARN # Nil THEN 1 ELSE 0)
             + (IF so[1].AWSCredentials # Nil THEN 1 ELSE 0)
       IN IF credentialsArgumentsCount > 1
          THEN <<"please provide only one of AWS profile, Role ARN and AWS Credentials">>
          ELSE NilError

\* ------------------------------------------------------------ buildRequest
buildRequestNoExpiry(expirySeconds, endpointURL) ==
  LET query == ValuesSet(EmptyValues, ActionType, ActionName)
      authURL == [Scheme |-> <<"https">>, Opaque |-> <<>>, Host |-> endpointURL,
                  Path |-> <<"/">>, RawQuery |-> ValuesEncode(query)]
  IN NewRequest("GET", URLString(authURL))

\* buildRequest(expirySeconds, endpointURL): [ok, err, req]
buildRequest(expirySeconds, endpointURL) ==
  LET query == ValuesSet(ValuesSet(EmptyValues, ActionType, ActionName),
                         ExpiresQueryKey, FormatInt(expirySeconds))
      authURL == [Scheme |-> <<"https">>, Opaque |-> <<>>, Host |-> endpointURL,
                  Path |-> <<"/">>, RawQuery |-> ValuesEncode(query)]
  IN NewRequest("GET", URLString(authURL))

\* ------------------------------------------------------------- signRequest
\* calculateSHA256Hash(input): hex of the SHA-256 digest
calculateSHA256Hash(input) ==
  IF input = <<>>
  THEN <<"e3b0c44298fc1c149afbf4c8996fb92427ae41e4649b934ca495991b7852b855">>
  ELSE IF input = <<"test">>
  THEN <<"9f86d081884c7d659a2feaa0c55ad015a3bf4f1b2b0b822cd15d6c15b0f00a08">>
  ELSE <<"sha256">> \o input

\* time.Format("20060102T150405Z") and time.Format("20060102") of instant t
LongTime(t) == <<"T" \o ToString(t)>>
ShortTime(t) == <<"D" \o ToString(t)>>

\* the characters of a string as one symbol
RECURSIVE FlatFrom(_, _)
FlatFrom(s, i) == IF i > Len(s) THEN "" ELSE s[i] \o FlatFrom(s, i + 1)

Flat(s) == Let(s, LAMBDA v : FlatFrom(v, 1))

\* the hex signature: a function of the secret key, the scope and what is signed
Signature(secret, scope, canonical, payloadHash) ==
  <<"sig[" \o Flat(secret) \o "|" \o Flat(scope) \o "|" \o Flat(canonical)
    \o "|" \o Flat(payloadHash) \o "]">>

\* v4.Signer.PresignHTTP(ctx, credentials, req, payloadHash, service, region,
\* signingTime): the presigned URL
PresignHTTP(credentials, req, payloadHash, service, region, signingTime) ==
  Let(Join(<<ShortTime(signingTime), region, service, <<"aws4_request">>>>, <<"/">>),
      LAMBDA scope :
    LET q0 == ParseQuery(req.URL.RawQuery)
        q1 == ValuesSet(q0, <<"X-Amz-Algorithm">>, <<"AWS4-HMAC-SHA256">>)
        q2 == IF Len(credentials.SessionToken) > 0
              THEN ValuesSet(q1, <<"X-Amz-Security-Token">>, credentials.SessionToken)
              ELSE q1
        q3 == ValuesSet(q2, <<"X-Amz-Date">>, LongTime(signingTime))
        q4 == ValuesSet(q3, <<"X-Amz-Credential">>,
                        credentials.AccessKeyID \o <<"/">> \o scope)
        q5 == ValuesSet(q4, <<"X-Amz-SignedHeaders">>, <<"host">>)
    IN Let(ReplaceAll(ValuesEncode(q5), "+", "%20"), LAMBDA rawQuery :
         URLString([req.URL EXCEPT
                      !.RawQuery = rawQuery \o <<"&", "X-Amz-Signature", "=">>
                                   \o Signature(credentials.SecretAccessKey, scope,
                                                req.Host \o rawQuery, payloadHash)])))

\* What the signing primitive answers: the presigned URL, an error, or a string
\* that is no URL.
SignerOutcomes == {"signed", "error", "malformed"}

InvalidURL == <<":", "invalidURL", ":">>

signRequestOtherRegion(req, region, credentials, now, outcome) ==
  IF outcome = "error" THEN [url |-> <<>>, err |-> <<"signing failed">>]
  ELSE IF outcome = "malformed" THEN [url |-> InvalidURL, err |-> NilError]
  ELSE [url |-> PresignHTTP(credentials, req, calculateSHA256Hash(<<>>), SigningName,
                            <<"us-east-1">>, now),
        err |-> NilError]

signRequestNoSessionToken(req, region, credentials, now, outcome) ==
  IF outcome = "error" THEN [url |-> <<>>, err |-> <<"signing failed">>]
  ELSE IF outcome = "malformed" THEN [url |-> InvalidURL, err |-> NilError]
  ELSE [url |-> PresignHTTP([credentials EXCEPT !.SessionToken = <<>>], req,
                            calculateSHA256Hash(<<>>), SigningName, region, now),
        err |-> NilError]

\* signRequest(ctx, req, region, credentials): [url, err]; now is time.Now().UTC()
signRequest(req, region, credentials, now, outcome) ==
  IF outcome = "error" THEN [url |-> <<>>, err |-> <<"signing failed">>]
  ELSE IF outcome = "malformed" THEN [url |-> InvalidURL, err |-> NilError]
  ELSE [url |-> PresignHTTP(credentials, req, calculateSHA256Hash(<<>>), SigningName,
                            region, now),
        err |-> NilError]

\* ------------------------------------------------------------ addUserAgent
addUserAgentPartial(signedURL) ==
  Let(Parse(signedURL), LAMBDA parsedSignedURL :
    IF ~parsedSignedURL.ok
    THEN [url |-> signedURL, err |-> NilError]
    ELSE LET userAgent == Join(<<LibName, version, RuntimeVersion>>, <<"/">>)
             query == ValuesSet(ParseQuery(parsedSignedURL.url.RawQuery),
                                UserAgentKey, userAgent)
         IN [url |-> URLString([parsedSignedURL.url EXCEPT
                                  !.RawQuery = ValuesEncode(query)]),
             err |-> NilError])

addUserAgentFreshQuery(signedURL) ==
  Let(Parse(signedURL), LAMBDA parsedSignedURL :
    IF ~parsedSignedURL.ok
    THEN [url |-> <<>>,
          err |-> Errorf("failed to parse signed url", <<parsedSignedURL.err>>)]
    ELSE LET userAgent == Join(<<LibName, version, RuntimeVersion>>, <<"/">>)
             query == ValuesSet(EmptyValues, UserAgentKey, userAgent)
         IN [url |-> URLString([parsedSignedURL.url EXCEPT
                                  !.RawQuery = ValuesEncode(query)]),
             err |-> NilError])

addUserAgentAppend(signedURL) ==
  Let(Parse(signedURL), LAMBDA parsedSignedURL :
    IF ~parsedSignedURL.ok
    THEN [url |-> <<>>,
          err |-> Errorf("failed to parse signed url", <<parsedSignedURL.err>>)]
    ELSE LET userAgent == Join(<<LibName, version, RuntimeVersion>>, <<"/">>)
             sep == IF parsedSignedURL.url.RawQuery = <<>> THEN <<"?">> ELSE <<"&">>
         IN [url |-> signedURL \o sep \o UserAgentKey \o <<"=">> \o QueryEscape(userAgent),
             err |-> NilError])

\* addUserAgent(signedURL): [url, err]
addUserAgent(signedURL) ==
  Let(Parse(signedURL), LAMBDA parsedSignedURL :
    IF ~parsedSignedURL.ok
    THEN [url |-> <<>>,
          err |-> Errorf("failed to parse signed url", <<parsedSignedURL.err>>)]
    ELSE LET userAgent == Join(<<LibName, version, RuntimeVersion>>, <<"/">>)
             query == ValuesSet(ParseQuery(parsedSignedURL.url.RawQuery),
                                UserAgentKey, userAgent)
         IN [url |-> URLString([parsedSignedURL.url EXCEPT
                                  !.RawQuery = ValuesEncode(query)]),
             err |-> NilError])

\* ------------------------------------------------------------ base64Encode
\* base64.RawURLEncoding.EncodeToString: symbol by symbol, "" for ""
base64Encode(signedURL) ==
  Let(signedURL, LAMBDA v : [i \in 1..Len(v) |-> <<"b64", v[i]>>])

\* base64.RawURLEncoding.DecodeString
base64Decode(token) == Let(token, LAMBDA v : [i \in 1..Len(v) |-> v[i][2]])

\* ------------------------------------------------------ constructAuthToken
\* constructAuthToken(ctx, region, credentials): the token, the error, the
\* stages that ran and the arguments the signer was called with.  now is the
\* instant signRequest reads, outcome the signing primitive's answer.
constructAuthTokenIgnoringErrors(region, credentials, now, outcome) ==
  Let(buildRequest(DefaultExpirySeconds, EndpointURL(region)), LAMBDA b :
    Let(signRequest(b.req, region, credentials, now, outcome), LAMBDA s :
      Let(addUserAgent(s.url), LAMBDA u :
        [token |-> base64Encode(IF u.err = NilError THEN u.url ELSE s.url),
         err |-> IF ~b.ok THEN Errorf("failed to build request for signing", <<b.err>>)
                 ELSE IF s.err # NilError
                 THEN Errorf("failed to sign request with aws sig v4", s.err)
                 ELSE IF u.err # NilError
                 THEN Errorf("failed to add user agent to the signed url", u.err)
                 ELSE NilError,
         stages |-> <<"buildRequest", "signRequest", "addUserAgent", "base64Encode">>,
         signArgs |-> <<[credentials |-> credentials, region |-> region,
                         signingTime |-> now]>>])))

constructAuthToken(region, credentials, now, outcome) ==
  LET args == <<[credentials |-> credentials, region |-> region, signingTime |-> now]>>
  IN Let(buildRequest(DefaultExpirySeconds, EndpointURL(region)), LAMBDA b :
       IF ~b.ok
       THEN [token |-> <<>>,
             err |-> Errorf("failed to build request for signing", <<b.err>>),
             stages |-> <<"buildRequest">>, signArgs |-> <<>>]
       ELSE Let(signRequest(b.req, region, credentials, now, outcome), LAMBDA s :
         IF s.err # NilError
         THEN [token |-> <<>>,
               err |-> Errorf("failed to sign request with aws sig v4", s.err),
               stages |-> <<"buildRequest", "signRequest">>, signArgs |-> args]
         ELSE Let(addUserAgent(s.url), LAMBDA u :
           IF u.err # NilError
           THEN [token |-> <<>>,
                 err |-> Errorf("failed to add user agent to the signed url", u.err),
                 stages |-> <<"buildRequest", "signRequest", "addUserAgent">>,
                 signArgs |-> args]
           ELSE [token |-> base64Encode(u.url), err |-> NilError,
                 stages |-> <<"buildRequest", "signRequest", "addUserAgent",
                              "base64Encode">>,
                 signArgs |-> args])))

\* ------------------------------------------------------------------ bounds
NumCalls == 1
MaxTime == 2
\* the calls in flight together in SpecPair
NumPair == 2

\* ------------------------------------------------------------------ inputs
Calls == 1..NumCalls

Regions == {<<"us-west-2">>, <<"eu-central-1">>, <<>>, <<"us", "/", "west">>}
Profiles == {<<"dev">>}
RoleArns == {<<"roleA">>, <<"roleB">>}
SessionNames == {<<>>, <<"my-sts-session-name">>}

\* aws.CredentialsProvider values a caller passes: the nil interface,
\* aws.AnonymousCredentials (Retrieve fails), a provider that returns credentials.
\* "chain" is cfg.Credentials of a loaded config: it returns credentials or fails.
Providers == {"nil", "anonymous", "mock"}

MockCredentials ==
  [AccessKeyID |-> <<"MOCK-ACCESS-KEY">>, SecretAccessKey |-> <<"MOCK-SECRET-KEY">>,
   SessionToken |-> <<>>]

SessionCredentials ==
  [AccessKeyID |-> <<"TEST-ACCESS-KEY">>, SecretAccessKey |-> <<"TEST-SECRET-KEY">>,
   SessionToken |-> <<"TEST-SESSION-TOKEN", "/", "+", "=", " ">>]

CredentialsSet == {MockCredentials, SessionCredentials}

\* What sts AssumeRole answers: an error, an output with credentials, an output
\* whose Credentials is nil, an output whose SessionToken is nil.
AssumeRoleOutcomes == {"error", "ok", "nilCredentials", "nilSessionToken"}

\* SignerOptions of the calls
CallOptions ==
  {Nil} \cup
  { <<[Region |-> r, AwsProfile |-> p, RoleARN |-> a, STSSessionName |-> Nil,
       STSRegion |-> Nil, AwsMaxRetries |-> 0, AwsMaxBackOffMs |-> 0,
       AWSCredentials |-> k]>> :
      r \in {Nil, <<<<"us-west-2">>>>}, p \in {Nil, <<<<"dev">>>>},
      a \in {Nil, <<<<"roleA">>>>}, k \in {Nil, <<MockCredentials>>} }

\* ------------------------------------------------------------------- state
VARIABLES
  pc,           \* per call: where it is
  call,         \* per call: the entry point and its arguments
  credentials,  \* per call: the entry point's credentials
  ret,          \* per call: the values returned, <<token, err>>
  log,          \* per call: the stages and collaborator calls made, in order
  io,           \* per call: what the collaborators received and answered
  unit,         \* the last application of a function on its own
  now           \* the clock

vars == <<pc, call, credentials, ret, log, io, unit, now>>

\* ctx: the caller's context, "live" or "cancelled"; cancelledAt: where the
\* call was when its context was cancelled; suppliedSessionName: the session
\* name the caller passed, stsSessionName the one in use
NoCall ==
  [entry |-> "", region |-> <<>>, awsProfile |-> <<>>, roleArn |-> <<>>,
   stsSessionName |-> <<>>, provider |-> "nil", viaOptions |-> FALSE, so |-> Nil,
   ctx |-> "live", cancelledAt |-> "", suppliedSessionName |-> <<>>]

\* answers: what each collaborator answered, in order; retrieved: Retrieve's
\* answers <<credentials, err>>; assumeRoleInput: the AssumeRole requests;
\* configLoads: the config loads; signArgs: what the signer was called with;
\* assumed: the credentials of AssumeRole's outputs; earlier: the credentials
\* AssumeRole gave to earlier calls of this caller; diag: the debug log lines
NoIO ==
  [answers |-> <<>>, retrieved |-> <<>>, assumeRoleInput |-> <<>>, configLoads |-> <<>>,
   signArgs |-> <<>>, assumed |-> <<>>, earlier |-> {}, diag |-> <<>>]

NoUnit ==
  [fn |-> "", so |-> Nil, expirySeconds |-> 0, endpointURL |-> <<>>, signedURL |-> <<>>,
   ok |-> FALSE, req |-> NoRequest, url |-> <<>>, err |-> NilError]

NoRet == <<<<>>, NilError>>

Init ==
  /\ pc = [c \in Calls |-> "idle"]
  /\ call = [c \in Calls |-> NoCall]
  /\ credentials = [c \in Calls |-> ZeroCredentials]
  /\ ret = [c \in Calls |-> NoRet]
  /\ log = [c \in Calls |-> <<>>]
  /\ io = [c \in Calls |-> NoIO]
  /\ unit = NoUnit
  /\ now = 0

\* a panic ends the process, and with it every call
Crashed == \E c \in DOMAIN pc : pc[c] = "panicked"

CanStart(c) == pc[c] = "idle" /\ ~Crashed /\ unit.fn = ""

Start(c, entry, next) ==
  /\ pc' = [pc EXCEPT ![c] = next]
  /\ call' = [call EXCEPT ![c] = entry]
  /\ UNCHANGED <<credentials, ret, log, io, unit, now>>

\* GenerateAuthToken(ctx, region), up to loadDefaultCredentials' config load
GenerateAuthToken(c, region) ==
  /\ CanStart(c)
  /\ Start(c, [NoCall EXCEPT !.entry = "GenerateAuthToken", !.region = region],
           "loadConfig")

\* GenerateAuthTokenFromProfile(ctx, region, awsProfile)
GenerateAuthTokenFromProfile(c, region, awsProfile) ==
  /\ CanStart(c)
  /\ Start(c, [NoCall EXCEPT !.entry = "GenerateAuthTokenFromProfile", !.region = region,
                             !.awsProfile = awsProfile],
           "loadConfig")

\* GenerateAuthTokenFromRole(ctx, region, roleArn, stsSessionName)
GenerateAuthTokenFromRole(c, region, roleArn, stsSessionName) ==
  /\ CanStart(c)
  /\ Start(c, [NoCall EXCEPT !.entry = "GenerateAuthTokenFromRole", !.region = region,
                             !.roleArn = roleArn,
                             !.suppliedSessionName = stsSessionName,
                             !.stsSessionName = IF stsSessionName = <<>>
                                                THEN DefaultSessionName
                                                ELSE stsSessionName],
           "loadConfig")

\* GenerateAuthTokenFromCredentialsProvider(ctx, region, credentialsProvider)
GenerateAuthTokenFromCredentialsProvider(c, region, credentialsProvider) ==
  /\ CanStart(c)
  /\ Start(c, [NoCall EXCEPT !.entry = "GenerateAuthTokenFromCredentialsProvider",
                             !.region = region, !.provider = credentialsProvider],
           "retrieve")

Return(c, token, err) ==
  /\ pc' = [pc EXCEPT ![c] = "returned"]
  /\ ret' = [ret EXCEPT ![c] = <<token, err>>]

\* the provider loadCredentialsFromCredentialsProvider is called with
ProviderOf(c) ==
  IF call[c].entry = "GenerateAuthTokenFromCredentialsProvider"
  THEN call[c].provider ELSE "chain"

\* The call waits for a collaborator that does I/O: the config load, Retrieve
\* of the ambient chain, AssumeRole.  A provider the caller passed answers at
\* once.
Blocked(c) ==
  \/ pc[c] \in {"loadConfig", "assumeRole"}
  \/ pc[c] = "retrieve" /\ ProviderOf(c) = "chain"

\* the caller cancels the context of a call in progress (or its deadline passes)
Cancel(c) ==
  /\ pc[c] \in {"loadConfig", "retrieve", "assumeRole", "construct"} /\ ~Crashed
  /\ call[c].ctx = "live"
  /\ call' = [call EXCEPT ![c].ctx = "cancelled",
                          ![c].cancelledAt = IF Blocked(c) THEN pc[c] ELSE "running"]
  /\ UNCHANGED <<pc, credentials, ret, log, io, unit, now>>

ContextBackground(c) == "live"

\* the context the loaders hand to LoadDefaultConfig, Retrieve and AssumeRole:
\* the caller's ctx
ContextOf(c) == call[c].ctx

\* A collaborator that does I/O returns the context's error once the context
\* it was given is cancelled.
Aborts(c) == Blocked(c) /\ ContextOf(c) = "cancelled"

ContextCanceled == <<"context canceled">>

\* config.LoadDefaultConfig in loadDefaultCredentials, loadCredentialsFromProfile
\* and loadCredentialsFromRoleArn
LoadDefaultConfig(c) ==
  /\ pc[c] = "loadConfig" /\ ~Crashed
  /\ log' = [log EXCEPT ![c] = @ \o <<"LoadDefaultConfig">>]
  /\ \E loaded \in IF Aborts(c) THEN {FALSE} ELSE BOOLEAN :
       /\ io' = [io EXCEPT
                  ![c].configLoads =
                     @ \o <<[region |-> call[c].region, profile |-> call[c].awsProfile]>>,
                  ![c].answers = @ \o <<IF loaded THEN "config:ok" ELSE "config:error">>]
       /\ IF loaded
          THEN /\ pc' = [pc EXCEPT ![c] = IF call[c].entry = "GenerateAuthTokenFromRole"
                                          THEN "assumeRole" ELSE "retrieve"]
               /\ UNCHANGED ret
          ELSE Return(c, <<>>, Errorf("failed to load credentials",
                                      Errorf("unable to load SDK config",
                                             IF Aborts(c) THEN ContextCanceled
                                             ELSE <<"config load failed">>)))
  /\ UNCHANGED <<call, credentials, unit, now>>

\* what Retrieve of a provider may answer: <<credentials, err>>
RetrieveAnswers(provider) ==
  LET failure == {<<ZeroCredentials, <<"retrieve failed">>>>}
      success == {<<k, NilError>> : k \in CredentialsSet}
  IN CASE provider = "anonymous" -> failure
       [] provider = "mock" -> success
       [] OTHER -> failure \cup success

loadCredentialsFromCredentialsProviderZero(answer) ==
  <<ZeroCredentials, answer[2]>>

\* loadCredentialsFromCredentialsProvider: <<&creds, err>> of Retrieve's answer
loadCredentialsFromCredentialsProvider(answer) ==
  <<answer[1], answer[2]>>

\* credentialsProvider.Retrieve(ctx) and the entry point's return on its error
Retrieve(c) ==
  /\ pc[c] = "retrieve" /\ ~Crashed
  /\ IF ProviderOf(c) = "nil"
     THEN /\ pc' = [pc EXCEPT ![c] = "panicked"]
          /\ UNCHANGED <<credentials, ret, log, io>>
     ELSE \E answer \in IF Aborts(c) THEN {<<ZeroCredentials, ContextCanceled>>}
                         ELSE RetrieveAnswers(ProviderOf(c)) :
            LET loaded == loadCredentialsFromCredentialsProvider(answer)
            IN /\ log' = [log EXCEPT ![c] = @ \o <<"Retrieve">>]
               /\ io' = [io EXCEPT
                          ![c].retrieved = @ \o <<answer>>,
                          ![c].answers = @ \o <<IF answer[2] = NilError THEN "retrieve:ok"
                                                ELSE "retrieve:error">>]
               /\ credentials' = [credentials EXCEPT ![c] = loaded[1]]
               /\ IF loaded[2] # NilError
                  THEN Return(c, <<>>, Errorf("failed to load credentials", loaded[2]))
                  ELSE /\ pc' = [pc EXCEPT ![c] = "construct"]
                       /\ UNCHANGED ret
  /\ UNCHANGED <<call, unit, now>>

\* the sts.AssumeRoleInput of loadCredentialsFromRoleArn
AssumeRoleInput(c) ==
  [RoleArn |-> call[c].roleArn, RoleSessionName |-> call[c].stsSessionName]

AssumeRoleReusing(c) ==
  /\ pc[c] = "assumeRole" /\ ~Crashed
  /\ pc' = [pc EXCEPT ![c] = "construct"]
  /\ IF io[c].earlier # {}
     THEN /\ \E k \in io[c].earlier : credentials' = [credentials EXCEPT ![c] = k]
          /\ UNCHANGED <<log, io>>
     ELSE /\ log' = [log EXCEPT ![c] = @ \o <<"sts.NewFromConfig", "AssumeRole">>]
          /\ \E k \in CredentialsSet :
               /\ credentials' = [credentials EXCEPT ![c] = k]
               /\ io' = [io EXCEPT
                          ![c].assumeRoleInput = @ \o <<AssumeRoleInput(c)>>,
                          ![c].answers = @ \o <<"assumeRole:ok">>,
                          ![c].assumed = @ \o <<k>>]
  /\ UNCHANGED <<call, ret, unit, now>>

\* stsClient.AssumeRole in loadCredentialsFromRoleArn, the credentials built
\* from its output, and the entry point's return on its error
AssumeRole(c) ==
  /\ pc[c] = "assumeRole" /\ ~Crashed
  /\ log' = [log EXCEPT ![c] = @ \o <<"sts.NewFromConfig", "AssumeRole">>]
  /\ \E outcome \in IF Aborts(c) THEN {"error"} ELSE AssumeRoleOutcomes :
       /\ outcome # "ok"
            => io' = [io EXCEPT
                       ![c].assumeRoleInput = @ \o <<AssumeRoleInput(c)>>,
                       ![c].answers = @ \o <<"assumeRole:" \o outcome>>]
       /\ CASE outcome = "error" ->
                 /\ Return(c, <<>>,
                           Errorf("failed to load credentials",
                                  Errorf("unable to assume role",
                                         IF Aborts(c) THEN ContextCanceled
                                         ELSE <<"assume role failed">>)))
                 /\ UNCHANGED credentials
            [] outcome = "ok" ->
                 /\ \E k \in CredentialsSet :
                      /\ credentials' = [credentials EXCEPT ![c] = k]
                      /\ io' = [io EXCEPT
                                 ![c].assumeRoleInput = @ \o <<AssumeRoleInput(c)>>,
                                 ![c].answers = @ \o <<"assumeRole:ok">>,
                                 ![c].assumed = @ \o <<k>>]
                 /\ pc' = [pc EXCEPT ![c] = "construct"]
                 /\ UNCHANGED ret
            [] OTHER ->
                 /\ pc' = [pc EXCEPT ![c] = "panicked"]
                 /\ UNCHANGED <<credentials, ret>>
  /\ UNCHANGED <<call, unit, now>>

ConstructAuthTokenSharedCredentials(c) ==
  /\ pc[c] = "construct" /\ ~Crashed
  /\ \E outcome \in SignerOutcomes :
       \E r \in {constructAuthToken(call[c].region, credentials[1], now, outcome)} :
          /\ log' = [log EXCEPT ![c] = @ \o r.stages]
          /\ io' = [io EXCEPT
                     ![c].signArgs = r.signArgs,
                     ![c].answers = IF r.signArgs = <<>> THEN @
                                    ELSE @ \o <<"signer:" \o outcome>>]
          /\ Return(c, r.token, r.err)
  /\ UNCHANGED <<call, credentials, unit, now>>

\* constructAuthToken and the entry point's return of its result
ConstructAuthToken(c) ==
  /\ pc[c] = "construct" /\ ~Crashed
  /\ \E outcome \in SignerOutcomes :
       \E r \in {constructAuthToken(call[c].region, credentials[c], now, outcome)} :
          /\ log' = [log EXCEPT ![c] = @ \o r.stages]
          /\ io' = [io EXCEPT
                     ![c].signArgs = r.signArgs,
                     ![c].answers = IF r.signArgs = <<>> THEN @
                                    ELSE @ \o <<"signer:" \o outcome>>]
          /\ Return(c, r.token, r.err)
  /\ UNCHANGED <<call, credentials, unit, now>>

\* Token generation from a SignerOptions value: it is validated once, before
\* resolution begins, and then selects the strategy.
GenerateAuthTokenFromOptions(c, so) ==
  /\ CanStart(c)
  /\ log' = [log EXCEPT ![c] = <<"Validate">>]
  /\ LET err == Validate(so)
         base == [NoCall EXCEPT !.viaOptions = TRUE, !.so = so]
     IN IF err # NilError
        THEN /\ call' = [call EXCEPT ![c] = base]
             /\ Return(c, <<>>, err)
             /\ UNCHANGED credentials
        ELSE LET o == so[1]
                 region == o.Region[1]
             IN IF o.AWSCredentials # Nil
                THEN /\ call' = [call EXCEPT ![c] = [base EXCEPT !.entry = "AWSCredentials",
                                                               !.region = region]]
                     /\ credentials' = [credentials EXCEPT ![c] = o.AWSCredentials[1]]
                     /\ pc' = [pc EXCEPT ![c] = "construct"]
                     /\ UNCHANGED ret
                ELSE /\ call' = [call EXCEPT ![c] =
                           IF o.AwsProfile # Nil
                           THEN [base EXCEPT !.entry = "GenerateAuthTokenFromProfile",
                                             !.region = region,
                                             !.awsProfile = o.AwsProfile[1]]
                           ELSE IF o.RoleARN # Nil
                           THEN [base EXCEPT !.entry = "GenerateAuthTokenFromRole",
                                             !.region = region, !.roleArn = o.RoleARN[1],
                                             !.suppliedSessionName =
                                                IF o.STSSessionName = Nil THEN <<>>
                                                ELSE o.STSSessionName[1],
                                             !.stsSessionName =
                                                IF o.STSSessionName = Nil
                                                THEN DefaultSessionName
                                                ELSE o.STSSessionName[1]]
                           ELSE [base EXCEPT !.entry = "GenerateAuthToken",
                                             !.region = region]]
                     /\ pc' = [pc EXCEPT ![c] = "loadConfig"]
                     /\ UNCHANGED <<credentials, ret>>
  /\ UNCHANGED <<io, unit, now>>

LogCallerIdentityPropagating(c) ==
  /\ pc[c] = "construct" /\ ~Crashed
  /\ \A i \in 1..Len(log[c]) : log[c][i] # "GetCallerIdentity"
  /\ log' = [log EXCEPT ![c] = @ \o <<"GetCallerIdentity">>]
  /\ \E identified \in BOOLEAN :
       /\ io' = [io EXCEPT
                  ![c].answers = @ \o <<IF identified THEN "identity:ok"
                                        ELSE "identity:error">>,
                  ![c].diag = @ \o <<IF identified THEN "Credentials Identity"
                                     ELSE "failed to get caller identity">>]
       /\ IF identified
          THEN UNCHANGED <<pc, ret>>
          ELSE Return(c, <<>>, Errorf("failed to load credentials",
                                      <<"failed to get caller identity">>))
  /\ UNCHANGED <<call, credentials, unit, now>>

\* With the debug flag AwsDebugCreds set, the resolver asks who the resolved
\* credentials belong to and logs the answer, or the failure, at debug level;
\* token generation goes on either way.  With the flag unset the step is not
\* taken.
LogCallerIdentity(c) ==
  /\ pc[c] = "construct" /\ ~Crashed
  /\ \A i \in 1..Len(log[c]) : log[c][i] # "GetCallerIdentity"
  /\ log' = [log EXCEPT ![c] = @ \o <<"GetCallerIdentity">>]
  /\ \E identified \in BOOLEAN :
       io' = [io EXCEPT
               ![c].answers = @ \o <<IF identified THEN "identity:ok"
                                     ELSE "identity:error">>,
               ![c].diag = @ \o <<IF identified THEN "Credentials Identity"
                                  ELSE "failed to get caller identity">>]
  /\ UNCHANGED <<pc, call, credentials, ret, unit, now>>

\* the caller takes the result; the call's frame is gone
Reset(c) ==
  /\ pc[c] = "returned" /\ ~Crashed
  /\ pc' = [pc EXCEPT ![c] = "idle"]
  /\ call' = [call EXCEPT ![c] = NoCall]
  /\ credentials' = [credentials EXCEPT ![c] = ZeroCredentials]
  /\ ret' = [ret EXCEPT ![c] = NoRet]
  /\ log' = [log EXCEPT ![c] = <<>>]
  /\ io' = [io EXCEPT ![c] = [NoIO EXCEPT !.earlier =
                                 io[c].earlier
                                 \cup {io[c].assumed[i] : i \in 1..Len(io[c].assumed)}]]
  /\ UNCHANGED <<unit, now>>

\* time passes
Tick ==
  /\ now < MaxTime /\ ~Crashed
  /\ now' = now + 1
  /\ UNCHANGED <<pc, call, credentials, ret, log, io, unit>>

\* ------------------------------------------- functions applied on their own
ValidateOptions ==
  {Nil} \cup
  { <<[Region |-> r, AwsProfile |-> p, RoleARN |-> a, STSSessionName |-> n,
       STSRegion |-> t, AwsMaxRetries |-> x, AwsMaxBackOffMs |-> b,
       AWSCredentials |-> k]>> :
      r \in {Nil, <<<<"us-west-2">>>>, <<<<>>>>}, p \in {Nil, <<<<"dev">>>>},
      a \in {Nil, <<<<"roleA">>>>}, n \in {Nil, <<<<"my-sts-session-name">>>>},
      t \in {Nil, <<<<"us-east-1">>>>}, x \in {0, 3}, b \in {0, 500},
      k \in {Nil, <<MockCredentials>>, <<ZeroCredentials>>} }

ExpiryValues == {DefaultExpirySeconds, 0, 60, -1}

EndpointHosts == {EndpointURL(r) : r \in Regions} \cup {<<"localhost">>}

TestSignedURL ==
  <<"https", ":", "//", "kafka.", "us-west-2", ".amazonaws.com", "/", "?",
    "Action", "=", "kafka-cluster", "%3A", "Connect">>

LocalURL == <<"https", ":", "//", "localhost", "/">>

PresignedURLs ==
  { signRequest(buildRequest(DefaultExpirySeconds, EndpointURL(<<"us-west-2">>)).req,
                <<"us-west-2">>, k, 0, "signed").url : k \in CredentialsSet }

SignedURLInputs ==
  PresignedURLs \cup
  { TestSignedURL,
    InvalidURL,
    TestSignedURL \o <<"&", "User-Agent", "=", "old">>,
    LocalURL,
    LocalURL \o <<"?", "z", "=", "1", "&", "a", "=", "2">>,
    LocalURL \o <<"?", "a", "=", "1", "&", "a", "=", "2">>,
    LocalURL \o <<"?", "Action", "=", "x", "&", "%zz", "=", "1">>,
    LocalURL \o <<"?", "Action", "=", "a", "%20", "b">>,
    <<"https", ":", "//", "bad", "%20", "host", "/", "?", "Action", "=", "x">> }

CanApply == unit.fn = "" /\ ~Crashed /\ \A c \in DOMAIN pc : pc[c] = "idle"

\* so.Validate()
ApplyValidate(so) ==
  /\ CanApply
  /\ unit' = [NoUnit EXCEPT !.fn = "Validate", !.so = so, !.err = Validate(so)]
  /\ UNCHANGED <<pc, call, credentials, ret, log, io, now>>

\* buildRequest(expirySeconds, endpointURL)
ApplyBuildRequest(expirySeconds, endpointURL) ==
  /\ CanApply
  /\ \E b \in {buildRequest(expirySeconds, endpointURL)} :
        unit' = [NoUnit EXCEPT !.fn = "buildRequest", !.expirySeconds = expirySeconds,
                               !.endpointURL = endpointURL, !.ok = b.ok, !.req = b.req,
                               !.err = IF b.ok THEN NilError ELSE <<b.err>>]
  /\ UNCHANGED <<pc, call, credentials, ret, log, io, now>>

\* addUserAgent(signedURL)
ApplyAddUserAgent(signedURL) ==
  /\ CanApply
  /\ \E u \in {addUserAgent(signedURL)} :
        unit' = [NoUnit EXCEPT !.fn = "addUserAgent", !.signedURL = signedURL,
                               !.url = u.url, !.err = u.err]
  /\ UNCHANGED <<pc, call, credentials, ret, log, io, now>>

\* the result is dropped
ResetUnit ==
  /\ unit.fn # "" /\ ~Crashed
  /\ unit' = NoUnit
  /\ UNCHANGED <<pc, call, credentials, ret, log, io, now>>

\* ------------------------------------------------------------ specification
Next ==
  \/ \E c \in Calls, region \in Regions : GenerateAuthToken(c, region)
  \/ \E c \in Calls, region \in Regions, awsProfile \in Profiles :
       GenerateAuthTokenFromProfile(c, region, awsProfile)
  \/ \E c \in Calls, region \in Regions, roleArn \in RoleArns, name \in SessionNames :
       GenerateAuthTokenFromRole(c, region, roleArn, name)
  \/ \E c \in Calls, region \in Regions, provider \in Providers :
       GenerateAuthTokenFromCredentialsProvider(c, region, provider)
  \/ \E c \in Calls, so \in CallOptions : GenerateAuthTokenFromOptions(c, so)
  \/ \E c \in Calls : LoadDefaultConfig(c)
  \/ \E c \in Calls : Retrieve(c)
  \/ \E c \in Calls : AssumeRole(c)
  \/ \E c \in Calls : ConstructAuthToken(c)
  \/ \E c \in Calls : Reset(c)
  \/ \E c \in Calls : Cancel(c)
  \/ \E c \in Calls : LogCallerIdentity(c)
  \/ \E so \in ValidateOptions : ApplyValidate(so)
  \/ \E e \in ExpiryValues, h \in EndpointHosts : ApplyBuildRequest(e, h)
  \/ \E u \in SignedURLInputs : ApplyAddUserAgent(u)
  \/ ResetUnit
  \/ Tick

Spec == Init /\ [][Next]_vars

\* A collaborator whose context is cancelled does return: the step that takes
\* its answer is not put off for ever.  Nothing else is promised to happen.
Abort(c) == Aborts(c) /\ (LoadDefaultConfig(c) \/ Retrieve(c) \/ AssumeRole(c))

SpecLive == Init /\ [][Next]_vars /\ \A c \in Calls : WF_vars(Abort(c))

\* ------------------------------------------------- calls in flight together
\* Goroutines calling the entry points concurrently: every interleaving of the
\* steps of NumPair calls, over few inputs and at one instant.
PairCalls == 1..NumPair

InitPair ==
  /\ pc = [c \in PairCalls |-> "idle"]
  /\ call = [c \in PairCalls |-> NoCall]
  /\ credentials = [c \in PairCalls |-> ZeroCredentials]
  /\ ret = [c \in PairCalls |-> NoRet]
  /\ log = [c \in PairCalls |-> <<>>]
  /\ io = [c \in PairCalls |-> NoIO]
  /\ unit = NoUnit
  /\ now = 0

NextPair ==
  \/ \E c \in PairCalls : GenerateAuthToken(c, <<"us-west-2">>)
  \/ \E c \in PairCalls, provider \in {"mock", "anonymous"} :
       GenerateAuthTokenFromCredentialsProvider(c, <<"us-west-2">>, provider)
  \/ \E c \in PairCalls : LoadDefaultConfig(c)
  \/ \E c \in PairCalls : Retrieve(c)
  \/ \E c \in PairCalls : ConstructAuthToken(c)
  \/ \E c \in PairCalls : Reset(c)

SpecPair == InitPair /\ [][NextPair]_vars

\* Calls in flight together whose contexts may be cancelled, one of them given
\* a nil provider; a collaborator whose context is cancelled does return.
NextPairLive ==
  \/ \E c \in PairCalls : GenerateAuthToken(c, <<"us-west-2">>)
  \/ \E c \in PairCalls :
       GenerateAuthTokenFromCredentialsProvider(c, <<"us-west-2">>, "nil")
  \/ \E c \in PairCalls : LoadDefaultConfig(c)
  \/ \E c \in PairCalls : Retrieve(c)
  \/ \E c \in PairCalls : ConstructAuthToken(c)
  \/ \E c \in PairCalls : Cancel(c)
  \/ \E c \in PairCalls : Reset(c)

SpecPairLive ==
  InitPair /\ [][NextPairLive]_vars /\ \A c \in PairCalls : WF_vars(Abort(c))

\* ------------------------------------------------------------------ claims
Returned(c) == pc[c] = "returned"
Token(c) == ret[c][1]
Err(c) == ret[c][2]
Succeeded(c) == Returned(c) /\ Err(c) = NilError /\ Len(log[c]) > 0
Ran(c, stage) == \E i \in 1..Len(log[c]) : log[c][i] = stage
Answered(c, answer) == \E i \in 1..Len(io[c].answers) : io[c].answers[i] = answer
Times(c, stage) == Cardinality({i \in 1..Len(log[c]) : log[c][i] = stage})

\* the URL a token decodes to, parsed, and its query
DecodedURL(c) == Parse(base64Decode(Token(c)))
DecodedQuery(c) == ParseQuery(DecodedURL(c).url.RawQuery)

\* the credential sources a SignerOptions value sets
SourcesSet(so) ==
  {f \in {"AwsProfile", "RoleARN", "AWSCredentials"} : so[1][f] # Nil}

InvalidOptions(so) == so = Nil \/ so[1].Region = Nil \/ Cardinality(SourcesSet(so)) > 1

\* C1: a failure of any stage (credential resolution, request construction,
\* signing, user agent) ends the call: no later stage runs and the call returns
\* the empty token with a non-nil error.
C1_StageFailureShortCircuits ==
  \A c \in Calls :
    LET failed == ret[c][1] = <<>> /\ ret[c][2] # NilError
        later(stages) == \E st \in stages : Ran(c, st)
        buildFails ==
          Ran(c, "buildRequest")
          /\ ~buildRequest(DefaultExpirySeconds, EndpointURL(call[c].region)).ok
    IN /\ Answered(c, "config:error")
            => /\ Returned(c) /\ failed
               /\ ~later({"Retrieve", "AssumeRole", "buildRequest", "signRequest",
                          "addUserAgent", "base64Encode"})
       /\ (Answered(c, "retrieve:error") \/ Answered(c, "assumeRole:error"))
            => /\ Returned(c) /\ failed
               /\ ~later({"buildRequest", "signRequest", "addUserAgent", "base64Encode"})
       /\ buildFails
            => /\ Returned(c) /\ failed
               /\ ~later({"signRequest", "addUserAgent", "base64Encode"})
       /\ Answered(c, "signer:error")
            => /\ Returned(c) /\ failed
               /\ ~later({"addUserAgent", "base64Encode"})
       /\ Answered(c, "signer:malformed")
            => /\ Returned(c) /\ failed
               /\ ~later({"base64Encode"})

C1_Witness ==
  \E c \in Calls :
    /\ Returned(c) /\ Answered(c, "signer:error")
    /\ Token(c) = <<>> /\ Err(c) # NilError
    /\ log[c][Len(log[c])] = "signRequest"

\* C2: Validate fails exactly when the receiver or the region is nil or more
\* than one of AwsProfile, RoleARN, AWSCredentials is set, whatever the other
\* fields hold.
C2_ValidateIffInvalid ==
  unit.fn = "Validate" => ((unit.err # NilError) <=> InvalidOptions(unit.so))

C2_Witness ==
  /\ unit.fn = "Validate" /\ unit.err = NilError /\ unit.so # Nil
  /\ SourcesSet(unit.so) = {"RoleARN"}
  /\ unit.so[1].STSSessionName # Nil /\ unit.so[1].AwsMaxRetries = 3

C4_ExpirationReturned ==
  \A c \in Calls :
    Succeeded(c)
      => /\ Len(ret[c]) = 3
         /\ ret[c][2] = io[c].signArgs[1].signingTime + DefaultExpirySeconds

\* C5: GenerateAuthTokenFromCredentialsProvider calls the provider's Retrieve
\* once; on its failure the call returns that error wrapped, without another
\* Retrieve and without building, signing or encoding; on its success the
\* signer gets exactly the credentials Retrieve returned.
C5_ProviderRetrievedOnce ==
  \A c \in Calls :
    (call[c].entry = "GenerateAuthTokenFromCredentialsProvider"
     /\ call[c].provider # "nil" /\ pc[c] \in {"construct", "returned"})
      => /\ Times(c, "Retrieve") = 1 /\ Len(io[c].retrieved) = 1
         /\ LET answer == io[c].retrieved[1]
            IN IF answer[2] # NilError
               THEN /\ Returned(c) /\ Token(c) = <<>>
                    /\ Err(c) = <<"failed to load credentials">> \o answer[2]
                    /\ log[c] = <<"Retrieve">> /\ io[c].signArgs = <<>>
               ELSE Ran(c, "signRequest")
                      => /\ Len(io[c].signArgs) = 1
                         /\ io[c].signArgs[1].credentials = answer[1]

C5_Witness ==
  \E c \in Calls :
    /\ call[c].entry = "GenerateAuthTokenFromCredentialsProvider"
    /\ call[c].provider = "anonymous"
    /\ Returned(c) /\ Err(c) # NilError /\ Times(c, "Retrieve") = 1

C5_WitnessSigned ==
  \E c \in Calls :
    /\ call[c].entry = "GenerateAuthTokenFromCredentialsProvider"
    /\ Succeeded(c) /\ io[c].signArgs[1].credentials = SessionCredentials

\* C6: a generated token decodes to an https URL on kafka.<region>.amazonaws.com
\* whose X-Amz-Credential has exactly five "/"-separated fields: the access key
\* id of the resolved credentials, a date, the region of the call,
\* kafka-cluster and aws4_request.
C6_RegionUsedConsistently ==
  \A c \in Calls :
    Succeeded(c)
      => LET u == DecodedURL(c)
             fields == Split(ValuesGet(DecodedQuery(c), <<"X-Amz-Credential">>), "/")
         IN /\ u.ok
            /\ u.url.Scheme = <<"https">>
            /\ u.url.Host = <<"kafka.">> \o call[c].region \o <<".amazonaws.com">>
            /\ Len(fields) = 5
            /\ fields[1] = credentials[c].AccessKeyID
            /\ fields[3] = call[c].region
            /\ fields[4] = <<"kafka-cluster">>
            /\ fields[5] = <<"aws4_request">>

C6_Witness ==
  \E c \in Calls :
    /\ Succeeded(c) /\ call[c].region = <<"us-west-2">>
    /\ credentials[c] = MockCredentials
    /\ Len(Split(ValuesGet(DecodedQuery(c), <<"X-Amz-Credential">>), "/")) = 5

\* C7: the token's X-Amz-Security-Token is the session token of the resolved
\* credentials when they have one, and is absent or empty when they have none.
C7_SecurityTokenCarried ==
  \A c \in Calls :
    Succeeded(c)
      => LET q == DecodedQuery(c)
             key == <<"X-Amz-Security-Token">>
         IN IF credentials[c].SessionToken # <<>>
            THEN key \in DOMAIN q /\ q[key] = <<credentials[c].SessionToken>>
            ELSE key \notin DOMAIN q \/ ValuesGet(q, key) = <<>>

C7_Witness ==
  \E c \in Calls :
    /\ Succeeded(c) /\ call[c].entry = "GenerateAuthToken"
    /\ credentials[c].SessionToken = <<"TEST-SESSION-TOKEN", "/", "+", "=", " ">>
    /\ ValuesGet(DecodedQuery(c), <<"X-Amz-Security-Token">>) = credentials[c].SessionToken

\* C8: the request buildRequest builds is a GET of https://<host>/ whose query
\* holds Action=kafka-cluster:Connect and X-Amz-Expires=<expiry> and nothing
\* else, and every generated token carries X-Amz-Expires=900.
C8_RequestHasActionAndExpiry ==
  /\ (unit.fn = "buildRequest" /\ unit.ok)
       => LET q == ParseQuery(unit.req.URL.RawQuery)
          IN /\ unit.req.Method = "GET"
             /\ unit.req.URL.Scheme = <<"https">>
             /\ unit.req.URL.Host = unit.endpointURL
             /\ unit.req.URL.Path = <<"/">>
             /\ DOMAIN q = {<<"Action">>, <<"X-Amz-Expires">>}
             /\ q[<<"Action">>] = <<<<"kafka-cluster", ":", "Connect">>>>
             /\ q[<<"X-Amz-Expires">>] = <<<<ToString(unit.expirySeconds)>>>>
             /\ Len(Split(unit.req.URL.RawQuery, "&")) = 2
  /\ \A c \in Calls :
       Succeeded(c) => DecodedQuery(c)[<<"X-Amz-Expires">>] = <<<<"900">>>>

C8_Witness ==
  /\ unit.fn = "buildRequest" /\ unit.ok /\ unit.expirySeconds = 60
  /\ unit.endpointURL = <<"kafka.", "us-west-2", ".amazonaws.com">>

C8_WitnessToken ==
  \E c \in Calls : Succeeded(c) /\ DecodedQuery(c)[<<"X-Amz-Expires">>] = <<<<"900">>>>

\* what addUserAgent puts in the query
UserAgentValue == <<"aws-msk-iam-sasl-signer-go", "/", "1.0.4", "/", "go1.20">>
UserAgentSuffix ==
  <<"&", "User-Agent", "=", "aws-msk-iam-sasl-signer-go", "%2F", "1.0.4", "%2F", "go1.20">>

\* C9 as stated: for every parseable signed URL the result of addUserAgent is
\* the input followed by &User-Agent=aws-msk-iam-sasl-signer-go/...: the
\* parameter comes last and the query before it is left as it was.
C9_UserAgentAppended ==
  (unit.fn = "addUserAgent" /\ Parse(unit.signedURL).ok)
    => /\ unit.err = NilError
       /\ HasPrefix(unit.url, unit.signedURL \o <<"&", "User-Agent", "=",
                                                  "aws-msk-iam-sasl-signer-go">>)

\* C9 amended: for every parseable signed URL addUserAgent returns the same
\* URL with its query re-encoded: User-Agent is set to the one value
\* aws-msk-iam-sasl-signer-go/<version>/<runtime>, every other parameter keeps
\* its values, and the parameters are written sorted by key, so User-Agent
\* comes last only when no other key sorts after it.
C9_UserAgentSetAndQueryReencoded ==
  (unit.fn = "addUserAgent" /\ Parse(unit.signedURL).ok)
    => LET in == Parse(unit.signedURL).url
           out == Parse(unit.url)
           qin == ParseQuery(in.RawQuery)
           qout == ParseQuery(out.url.RawQuery)
           keys == Split(out.url.RawQuery, "&")
       IN /\ unit.err = NilError
          /\ out.ok
          /\ out.url.Scheme = in.Scheme /\ out.url.Host = in.Host
          /\ out.url.Path = in.Path
          /\ DOMAIN qout = DOMAIN qin \cup {<<"User-Agent">>}
          /\ qout[<<"User-Agent">>] = <<UserAgentValue>>
          /\ \A k \in DOMAIN qin \ {<<"User-Agent">>} : qout[k] = qin[k]
          /\ \A i \in 1..(Len(keys) - 1) :
               LET ki == Split(keys[i], "=")[1]
                   kj == Split(keys[i + 1], "=")[1]
               IN ki = kj \/ StrLess(ki, kj)

C9_Witness ==
  /\ unit.fn = "addUserAgent" /\ unit.signedURL \in PresignedURLs
  /\ unit.err = NilError
  /\ ~HasPrefix(unit.url, unit.signedURL)
  /\ ParseQuery(Parse(unit.url).url.RawQuery)[<<"User-Agent">>] = <<UserAgentValue>>

C9_WitnessAppended ==
  /\ unit.fn = "addUserAgent" /\ unit.signedURL = TestSignedURL
  /\ unit.url = TestSignedURL \o UserAgentSuffix

\* C10: for an input that does not parse as a URL addUserAgent returns a
\* non-nil error and the empty string, and a call whose signed URL does not
\* parse returns an error and the empty token with nothing encoded.
C10_UnparseableURLRejected ==
  /\ (unit.fn = "addUserAgent" /\ ~Parse(unit.signedURL).ok)
       => unit.err # NilError /\ unit.url = <<>>
  /\ \A c \in Calls :
       (Returned(c) /\ Answered(c, "signer:malformed"))
         => /\ Token(c) = <<>>
            /\ Len(Err(c)) >= 2
            /\ Err(c)[1] = "failed to add user agent to the signed url"
            /\ Err(c)[2] = "failed to parse signed url"
            /\ ~Ran(c, "base64Encode")

C10_Witness ==
  /\ unit.fn = "addUserAgent" /\ unit.signedURL = <<":", "invalidURL", ":">>
  /\ unit.err # NilError /\ unit.url = <<>>

C10_WitnessCall ==
  \E c \in Calls :
    /\ Returned(c) /\ Answered(c, "signer:malformed")
    /\ Token(c) = <<>> /\ log[c][Len(log[c])] = "addUserAgent"

\* what a call returns when it runs alone: a function of its own arguments and
\* of what its collaborators answered to it (the config load, Retrieve,
\* AssumeRole, the clock read and the signing primitive)
ResolvedAlone(c) ==
  IF call[c].entry = "AWSCredentials" THEN call[c].so[1].AWSCredentials[1]
  ELSE IF call[c].entry = "GenerateAuthTokenFromRole" THEN io[c].assumed[1]
  ELSE io[c].retrieved[1][1]

ResultAlone(c) ==
  LET loadError(cause) == <<<<>>, <<"failed to load credentials">> \o cause>>
      outcome == IF Answered(c, "signer:error") THEN "error"
                 ELSE IF Answered(c, "signer:malformed") THEN "malformed" ELSE "signed"
      time == IF io[c].signArgs = <<>> THEN 0 ELSE io[c].signArgs[1].signingTime
  IN IF Answered(c, "config:error")
     THEN loadError(<<"unable to load SDK config", "config load failed">>)
     ELSE IF Answered(c, "retrieve:error") THEN loadError(io[c].retrieved[1][2])
     ELSE IF Answered(c, "assumeRole:error")
     THEN loadError(<<"unable to assume role", "assume role failed">>)
     ELSE Let(constructAuthToken(call[c].region, ResolvedAlone(c), time, outcome),
              LAMBDA r : <<r.token, r.err>>)

\* C11: under every interleaving of concurrent calls each call returns what it
\* would return alone with the same arguments and the same collaborator
\* answers, and a step of one call changes nothing of another call.
C11_ConcurrentCallsIndependent ==
  /\ [](\A c \in PairCalls : Returned(c) => ret[c] = ResultAlone(c))
  /\ [][\A c \in PairCalls :
          (pc'[c] # pc[c])
            => \A d \in PairCalls \ {c} :
                 /\ pc'[d] = pc[d] /\ call'[d] = call[d]
                 /\ credentials'[d] = credentials[d] /\ ret'[d] = ret[d]
                 /\ log'[d] = log[d] /\ io'[d] = io[d]]_vars

C11_Witness ==
  /\ Returned(1) /\ Err(1) = NilError
  /\ credentials[1] = SessionCredentials
  /\ pc[2] = "construct" /\ credentials[2] = MockCredentials
  /\ call[2].entry # call[1].entry
  /\ ret[1] = ResultAlone(1)

\* where a call waits for a collaborator that does I/O
BlockedPoints == {"loadConfig", "retrieve", "assumeRole"}

\* C12: a call whose context is cancelled while it waits in credential
\* resolution (config load, Retrieve of the ambient chain, AssumeRole)
\* eventually returns, and what it returns is the empty token and an error
\* whose chain ends in the cancellation cause.
C12_CancelledCallAlwaysReturns ==
  \A c \in PairCalls :
    /\ []((Returned(c) /\ call[c].cancelledAt \in BlockedPoints)
            => /\ Token(c) = <<>>
               /\ Err(c)[1] = "failed to load credentials"
               /\ Err(c)[Len(Err(c))] = "context canceled")
    /\ (call[c].cancelledAt \in BlockedPoints) ~> Returned(c)

\* C12 with one call in flight (SpecLive): the cancelled call returns, with the
\* empty token and an error whose chain ends in the cancellation cause.
C12_CancelledCallReturnsError ==
  \A c \in Calls :
    /\ []((Returned(c) /\ call[c].cancelledAt \in BlockedPoints)
            => /\ Token(c) = <<>>
               /\ Err(c)[1] = "failed to load credentials"
               /\ Err(c)[Len(Err(c))] = "context canceled")
    /\ (call[c].cancelledAt \in BlockedPoints) ~> Returned(c)

C12_Witness ==
  \E c \in Calls :
    /\ Returned(c) /\ call[c].cancelledAt = "assumeRole"
    /\ Token(c) = <<>>
    /\ Err(c) = <<"failed to load credentials", "unable to assume role", "context canceled">>

\* C13: every call of GenerateAuthTokenFromRole that gets past its config
\* load, whatever earlier calls obtained, creates one STS client and makes one
\* AssumeRole request of its own, for the role it was given and with the session
\* name it was given, or MSKSASLDefaultSession when that is empty; the
\* credentials it signs with are the ones that request returned.
C13_AssumeRolePerCall ==
  \A c \in Calls :
    (call[c].entry = "GenerateAuthTokenFromRole"
     /\ pc[c] \in {"construct", "returned", "panicked"}
     /\ ~Answered(c, "config:error"))
      => /\ Times(c, "sts.NewFromConfig") = 1 /\ Times(c, "AssumeRole") = 1
         /\ io[c].assumeRoleInput =
              <<[RoleArn |-> call[c].roleArn,
                 RoleSessionName |-> IF call[c].suppliedSessionName = <<>>
                                     THEN <<"MSKSASLDefaultSession">>
                                     ELSE call[c].suppliedSessionName]>>
         /\ pc[c] = "construct" => io[c].assumed = <<credentials[c]>>
         /\ Ran(c, "signRequest")
              => /\ Len(io[c].assumed) = 1
                 /\ io[c].signArgs[1].credentials = io[c].assumed[1]

C13_Witness ==
  \E c \in Calls :
    /\ call[c].entry = "GenerateAuthTokenFromRole" /\ ~call[c].viaOptions
    /\ call[c].suppliedSessionName = <<>>
    /\ Succeeded(c)
    /\ io[c].earlier = {SessionCredentials}
    /\ Times(c, "AssumeRole") = 1
    /\ io[c].assumeRoleInput[1].RoleSessionName = <<"MSKSASLDefaultSession">>
    /\ io[c].signArgs[1].credentials = MockCredentials

\* C14: the identity lookup made under the debug flag decides nothing: a call
\* that made it returns what it returns without it, whether the lookup
\* succeeded or failed, and a failed lookup is logged and is no part of the
\* returned error.
C14_IdentityLookupBestEffort ==
  \A c \in Calls :
    (Returned(c) /\ Ran(c, "GetCallerIdentity"))
      => /\ ret[c] = ResultAlone(c)
         /\ Answered(c, "identity:error")
              => /\ io[c].diag = <<"failed to get caller identity">>
                 /\ \A i \in 1..Len(Err(c)) : Err(c)[i] # "failed to get caller identity"

C14_Witness ==
  \E c \in Calls :
    /\ Succeeded(c) /\ Answered(c, "identity:error")
    /\ Token(c) # <<>>
    /\ io[c].diag = <<"failed to get caller identity">>

\* the cause a failed collaborator gave to a call
CauseOf(c, stage) ==
  IF stage = "retrieve" THEN io[c].retrieved[1][2]
  ELSE IF call[c].cancelledAt = stage THEN <<"context canceled">>
  ELSE IF stage = "loadConfig" THEN <<"config load failed">>
  ELSE <<"assume role failed">>

\* C15: the error an entry point returns names the first stage that failed and
\* ends in that stage's cause: credential resolution as "failed to load
\* credentials", request construction as "failed to build request for signing",
\* signing as "failed to sign request with aws sig v4", the user agent as
\* "failed to add user agent to the signed url"; and an error is returned only
\* when one of these stages failed.
C15_ErrorNamesFailedStage ==
  \A c \in Calls :
    (Returned(c) /\ ~(call[c].viaOptions /\ InvalidOptions(call[c].so)))
      => LET built == buildRequest(DefaultExpirySeconds, EndpointURL(call[c].region))
         IN IF Answered(c, "config:error")
            THEN Err(c) = <<"failed to load credentials", "unable to load SDK config">>
                          \o CauseOf(c, "loadConfig")
            ELSE IF Answered(c, "retrieve:error")
            THEN Err(c) = <<"failed to load credentials">> \o CauseOf(c, "retrieve")
            ELSE IF Answered(c, "assumeRole:error")
            THEN Err(c) = <<"failed to load credentials", "unable to assume role">>
                          \o CauseOf(c, "assumeRole")
            ELSE IF ~built.ok
            THEN Err(c) = <<"failed to build request for signing", built.err>>
            ELSE IF Answered(c, "signer:error")
            THEN Err(c) = <<"failed to sign request with aws sig v4", "signing failed">>
            ELSE IF Answered(c, "signer:malformed")
            THEN Err(c) = <<"failed to add user agent to the signed url",
                            "failed to parse signed url",
                            Parse(<<":", "invalidURL", ":">>).err>>
            ELSE Err(c) = NilError

C15_Witness ==
  \E c \in Calls :
    /\ Returned(c) /\ call[c].region = <<"us", "/", "west">>
    /\ Ran(c, "buildRequest")
    /\ Len(Err(c)) = 2 /\ Err(c)[1] = "failed to build request for signing"

\* C16: no call panics, and a call that returns returns either a non-empty
\* token with a nil error or the empty token with a non-nil error, for every
\* input: an empty region, a nil credentials provider, an AssumeRole output
\* without credentials or without a session token.
C16_NeverPanics ==
  \A c \in Calls :
    /\ pc[c] # "panicked"
    /\ Returned(c)
         => \/ Token(c) # <<>> /\ Err(c) = NilError
            \/ Token(c) = <<>> /\ Err(c) # NilError

\* the pairs of a raw query whose key is User-Agent
UserAgentPairs(rawQuery) ==
  LET pairs == Split(rawQuery, "&")
  IN {i \in 1..Len(pairs) : Split(pairs[i], "=")[1] = <<"User-Agent">>}

\* a query without its User-Agent
WithoutUserAgent(q) == [k \in DOMAIN q \ {<<"User-Agent">>} |-> q[k]]

\* C17: addUserAgent changes nothing that was signed: the URL it returns has
\* the scheme, host and path of its input, every parameter of the input but
\* User-Agent with the same values, no parameter the input had not, and one
\* User-Agent pair, also when the input had one; so a token carries the
\* signer's parameters, X-Amz-Signature among them, as the signer wrote them.
C17_SignedPartUntouched ==
  /\ (unit.fn = "addUserAgent" /\ Parse(unit.signedURL).ok)
       => LET in == Parse(unit.signedURL).url
              out == Parse(unit.url).url
          IN /\ out.Scheme = in.Scheme /\ out.Host = in.Host /\ out.Path = in.Path
             /\ WithoutUserAgent(ParseQuery(out.RawQuery))
                  = WithoutUserAgent(ParseQuery(in.RawQuery))
             /\ Cardinality(UserAgentPairs(out.RawQuery)) = 1
             /\ Len(ParseQuery(out.RawQuery)[<<"User-Agent">>]) = 1
  /\ \A c \in Calls :
       Succeeded(c)
         => LET signed == signRequest(
                            buildRequest(DefaultExpirySeconds,
                                         EndpointURL(call[c].region)).req,
                            call[c].region, credentials[c],
                            io[c].signArgs[1].signingTime, "signed").url
                q == DecodedQuery(c)
            IN /\ WithoutUserAgent(q) = ParseQuery(Parse(signed).url.RawQuery)
               /\ {<<"X-Amz-Signature">>, <<"X-Amz-Credential">>, <<"X-Amz-Date">>,
                   <<"X-Amz-Expires">>} \subseteq DOMAIN q
               /\ Cardinality(UserAgentPairs(DecodedURL(c).url.RawQuery)) = 1

C17_Witness ==
  /\ unit.fn = "addUserAgent"
  /\ unit.signedURL = TestSignedURL \o <<"&", "User-Agent", "=", "old">>
  /\ Cardinality(UserAgentPairs(unit.signedURL)) = 1
  /\ Cardinality(UserAgentPairs(Parse(unit.url).url.RawQuery)) = 1
  /\ ParseQuery(Parse(unit.url).url.RawQuery)[<<"User-Agent">>] # <<<<"old">>>>
  /\ ParseQuery(Parse(unit.url).url.RawQuery)[<<"Action">>]
       = <<<<"kafka-cluster", ":", "Connect">>>>

====
